---- MODULE Spec2Model ----
(***************************************************************************)
(* A model of volume_calculator.py: the STL format sniffer, the binary and *)
(* ASCII triangle readers, the bounding box, the watertightness check and  *)
(* the volume / surface-area integrators of class STLUtils, and the        *)
(* results record built by main().                                         *)
(*                                                                         *)
(* Numbers.  Coordinates are integers, in millimetres.  Python floats are  *)
(* modelled by exact rationals kept as an integer numerator over a fixed   *)
(* denominator: a volume is a count of 1/VolumeDen cm3, an area a count of *)
(* 1/AreaDen cm2, a bounding-box dimension a count of 1/BBoxDen cm.        *)
(* Floating-point rounding error is not modelled.                          *)
(*                                                                         *)
(* Python's None is the empty sequence, a present value x is <<x>>.        *)
(***************************************************************************)
EXTENDS Integers, Sequences, FiniteSets, TLC

VARIABLES
    pc,               \* "start" (object constructed), "loaded", "reported", "exited"
    infile,           \* the file last handed to loadSTL
    is_binary_file,   \* self.is_binary_file
    triangles,        \* self.triangles
    triangle_count,   \* self.triangle_count
    file_size,        \* self.file_size
    bounding_box_cm,  \* self.bounding_box_cm
    bbox_min,         \* self._bbox_min
    is_watertight,    \* self.is_watertight
    console,          \* the warnings and errors printed so far
    total,            \* calculate_volume's local `total` at its return, times 6
    volume_ret,       \* the value calculate_volume returned last
    area_ret,         \* the value calculate_surface_area returned last
                      \* (the three of them: since the last load)
    results,          \* the results record of main()
    args,             \* the options main() parsed: calculation, infill, material
    file_log,         \* the opens and closes of the input file by the last load
    open_handles      \* the handles to input files that are open now

vars == <<pc, infile, is_binary_file, triangles, triangle_count, file_size,
          bounding_box_cm, bbox_min, is_watertight, console, total,
          volume_ret, area_ret, results, args, file_log, open_handles>>

None == <<>>
Some(x) == <<x>>

----------------------------------------------------------------------------
(* Bounds of the model *)

\* width, in bits, of the modelled triangle-count field (32 in the format)
CountBits == 5
\* most facets in a generated ASCII file
MaxFacets == 3
\* longest triangle list drawn freely from the small triangle universe
MaxFree == 2

----------------------------------------------------------------------------
(* Program constants *)

HeaderBytes == 80
CountBytes == 4
RecordBytes == 50
FacetLines == 7
RoundPlaces == 6
\* _signed_volume_of_triangle: (1.0 / 6.0) * (...)
TetraDen == 6
\* calculate_volume: / 1000.0, mm3 to cm3
Mm3PerCm3 == 1000
\* calculate_surface_area: 0.5 * norm
HalfDen == 2
\* calculate_surface_area: / 100.0, mm2 to cm2
Mm2PerCm2 == 100
\* _calculate_bounding_box: / 10.0, mm to cm
BBoxDen == 10
\* main: stl.file_size / 1024
BytesPerKb == 1024
\* materials_dict: densities are written with up to 3 decimals
DensityDen == 1000
\* main: args.infill / 100.0
InfillDen == 100
\* main: 0.0 <= args.infill <= 100.0
MaxInfill == 100
\* main: "infill_percent": 100.0
FullInfill == 100
\* argparse defaults of --infill and --material
DefaultInfill == 20
DefaultMaterial == 1
VolumeDen == TetraDen * Mm3PerCm3
AreaDen == HalfDen * Mm2PerCm2

----------------------------------------------------------------------------
(* Integer helpers *)

Abs(x) == IF x < 0 THEN -x ELSE x

Min2(a, b) == IF a < b THEN a ELSE b

RECURSIVE Pow(_, _)
Pow(b, e) == IF e = 0 THEN 1 ELSE b * Pow(b, e - 1)

\* the largest r in lo..hi with r * r <= q, by bisection
RECURSIVE RootBetween(_, _, _)
RootBetween(q, lo, hi) ==
    IF lo >= hi THEN lo
    ELSE LET mid == (lo + hi + 1) \div 2
         IN  IF mid * mid <= q THEN RootBetween(q, mid, hi)
             ELSE RootBetween(q, lo, mid - 1)

\* x ** 0.5, exact: it is defined on perfect squares only, so that a mesh
\* whose area is irrational stops the check instead of being rounded
Sqrt(q) ==
    LET r == RootBetween(q, 0, Min2(q, 46340))
    IN  IF r * r = q THEN r ELSE CHOOSE x \in {} : TRUE

----------------------------------------------------------------------------
(* Geometry: points are <<x, y, z>>, triangles are <<p1, p2, p3>> *)

\* the vertices of a triangle list in iteration order (for tri: for v in tri)
VertexAt(tris, k) == tris[((k - 1) \div 3) + 1][((k - 1) % 3) + 1]

\* the running minima and maxima after the single vertex v
BBoxOf(v) ==
    [min_x |-> v[1], max_x |-> v[1],
     min_y |-> v[2], max_y |-> v[2],
     min_z |-> v[3], max_z |-> v[3]]

\* a variant whose last comparison looks at the wrong running value
BBoxStepWrongAxis(acc, b) ==
    [min_x |-> IF b.min_x < acc.min_x THEN b.min_x ELSE acc.min_x,
     max_x |-> IF b.max_x > acc.max_x THEN b.max_x ELSE acc.max_x,
     min_y |-> IF b.min_y < acc.min_y THEN b.min_y ELSE acc.min_y,
     max_y |-> IF b.max_y > acc.max_y THEN b.max_y ELSE acc.max_y,
     min_z |-> IF b.min_z < acc.min_z THEN b.min_z ELSE acc.min_z,
     max_z |-> IF b.max_z > acc.max_y THEN b.max_z ELSE acc.max_z]

\* the comparisons of the loop body, applied to the running values of two
\* consecutive stretches of vertices
BBoxStep(acc, b) ==
    [min_x |-> IF b.min_x < acc.min_x THEN b.min_x ELSE acc.min_x,
     max_x |-> IF b.max_x > acc.max_x THEN b.max_x ELSE acc.max_x,
     min_y |-> IF b.min_y < acc.min_y THEN b.min_y ELSE acc.min_y,
     max_y |-> IF b.max_y > acc.max_y THEN b.max_y ELSE acc.max_y,
     min_z |-> IF b.min_z < acc.min_z THEN b.min_z ELSE acc.min_z,
     max_z |-> IF b.max_z > acc.max_z THEN b.max_z ELSE acc.max_z]

\* the double loop over vertices lo..hi (lo <= hi), in order.  The stretch
\* is evaluated by halves, which keeps the evaluation shallow; minimum and
\* maximum are associative, so the values are those of the loop.
RECURSIVE BBoxFold(_, _, _)
BBoxFold(tris, lo, hi) ==
    IF lo = hi THEN BBoxOf(VertexAt(tris, lo))
    ELSE BBoxStep(BBoxFold(tris, lo, (lo + hi) \div 2),
                  BBoxFold(tris, ((lo + hi) \div 2) + 1, hi))

\* _calculate_bounding_box: the new (bounding_box_cm, _bbox_min)
CalculateBoundingBox(tris) ==
    IF tris = <<>>
    THEN [bounding_box_cm |-> [width |-> 0, depth |-> 0, height |-> 0],
          bbox_min |-> <<0, 0, 0>>]
    ELSE LET fv == tris[1][1]
             m  == BBoxStep(BBoxOf(fv), BBoxFold(tris, 1, 3 * Len(tris)))
         IN  [bounding_box_cm |-> [width  |-> m.max_x - m.min_x,
                                   depth  |-> m.max_y - m.min_y,
                                   height |-> m.max_z - m.min_z],
              bbox_min |-> <<m.min_x, m.min_y, m.min_z>>]

\* round(c, 6) of a whole number of millimetres: the result as a count of
\* 10^-6 mm
Round6(c) == c * Pow(10, RoundPlaces)

RoundPoint(p) == <<Round6(p[1]), Round6(p[2]), Round6(p[3])>>

\* Python's tuple order
TupleLess(a, b) ==
    \/ a[1] < b[1]
    \/ a[1] = b[1] /\ a[2] < b[2]
    \/ a[1] = b[1] /\ a[2] = b[2] /\ a[3] < b[3]

TupleMin(a, b) == IF TupleLess(b, a) THEN b ELSE a
TupleMax(a, b) == IF TupleLess(a, b) THEN b ELSE a

\* key = (min(a, b), max(a, b)) for side j of a triangle:
\* (v1, v2), (v2, v3), (v3, v1)
EdgeKey(tri, j) ==
    LET a == RoundPoint(tri[j])
        b == RoundPoint(tri[(j % 3) + 1])
    IN  <<TupleMin(a, b), TupleMax(a, b)>>

\* the key of side k, counting the sides of all triangles in order
SideKey(tris, k) == EdgeKey(tris[((k - 1) \div 3) + 1], ((k - 1) % 3) + 1)

\* edge_count after the sides of one stretch and then those of the next
AddCounts(c1, c2) ==
    [key \in DOMAIN c1 \cup DOMAIN c2 |->
        (IF key \in DOMAIN c1 THEN c1[key] ELSE 0)
        + (IF key \in DOMAIN c2 THEN c2[key] ELSE 0)]

\* edge_count (a defaultdict(int)) after `edge_count[key] += 1` for sides
\* lo..hi, evaluated by halves
RECURSIVE EdgeCount(_, _, _)
EdgeCount(tris, lo, hi) ==
    IF lo > hi THEN <<>>
    ELSE IF lo = hi THEN SideKey(tris, lo) :> 1
    ELSE AddCounts(EdgeCount(tris, lo, (lo + hi) \div 2),
                   EdgeCount(tris, ((lo + hi) \div 2) + 1, hi))

\* a variant that wants at least one edge
CheckWatertightNeedsEdges(tris) ==
    LET edge_count == EdgeCount(tris, 1, 3 * Len(tris))
    IN  /\ tris # <<>>
        /\ \A key \in DOMAIN edge_count : edge_count[key] = 2

\* _check_watertight
CheckWatertight(tris) ==
    LET edge_count == EdgeCount(tris, 1, 3 * Len(tris))
    IN  \A key \in DOMAIN edge_count : edge_count[key] = 2

\* a variant that leaves the origin where it is
UntranslatedTriangles(tris, o) == tris

\* _translated_triangles, with (ox, oy, oz) = o
TranslatedTriangles(tris, o) ==
    [i \in 1..Len(tris) |->
        <<<<tris[i][1][1] - o[1], tris[i][1][2] - o[2], tris[i][1][3] - o[3]>>,
          <<tris[i][2][1] - o[1], tris[i][2][2] - o[2], tris[i][2][3] - o[3]>>,
          <<tris[i][3][1] - o[1], tris[i][3][2] - o[2], tris[i][3][3] - o[3]>>>>]

\* a variant with the sign of the last term changed
SignedVolumeWrongTerm(p1, p2, p3) ==
    - p3[1] * p2[2] * p1[3] + p2[1] * p3[2] * p1[3] + p3[1] * p1[2] * p2[3]
    - p1[1] * p3[2] * p2[3] - p2[1] * p1[2] * p3[3] - p1[1] * p2[2] * p3[3]

\* _signed_volume_of_triangle, times 6
SignedVolumeOfTriangle(p1, p2, p3) ==
    LET v321 == p3[1] * p2[2] * p1[3]
        v231 == p2[1] * p3[2] * p1[3]
        v312 == p3[1] * p1[2] * p2[3]
        v132 == p1[1] * p3[2] * p2[3]
        v213 == p2[1] * p1[2] * p3[3]
        v123 == p1[1] * p2[2] * p3[3]
    IN  -v321 + v231 + v312 - v132 - v213 + v123

\* calculate_volume's loop over triangles lo..hi: what it adds to `total`
\* (times 6), evaluated by halves
RECURSIVE VolumeTotal(_, _, _)
VolumeTotal(tt, lo, hi) ==
    IF lo > hi THEN 0
    ELSE IF lo = hi
    THEN SignedVolumeOfTriangle(tt[lo][1], tt[lo][2], tt[lo][3])
    ELSE VolumeTotal(tt, lo, (lo + hi) \div 2)
         + VolumeTotal(tt, ((lo + hi) \div 2) + 1, hi)

\* (cx * cx + cy * cy + cz * cz) ** 0.5 of calculate_surface_area
CrossNorm(p1, p2, p3) ==
    LET ax == p2[1] - p1[1]
        ay == p2[2] - p1[2]
        az == p2[3] - p1[3]
        bx == p3[1] - p1[1]
        by == p3[2] - p1[2]
        bz == p3[3] - p1[3]
        cx == ay * bz - az * by
        cy == az * bx - ax * bz
        cz == ax * by - ay * bx
    IN  Sqrt(cx * cx + cy * cy + cz * cz)

\* calculate_surface_area's loop over triangles lo..hi: what it adds to
\* `area` (times 2), evaluated by halves
RECURSIVE AreaTotal(_, _, _)
AreaTotal(tris, lo, hi) ==
    IF lo > hi THEN 0
    ELSE IF lo = hi THEN CrossNorm(tris[lo][1], tris[lo][2], tris[lo][3])
    ELSE AreaTotal(tris, lo, (lo + hi) \div 2)
         + AreaTotal(tris, ((lo + hi) \div 2) + 1, hi)

----------------------------------------------------------------------------
(* Files.  A file is
     header : the leading characters of its first HeaderBytes bytes, decoded
     size   : os.path.getsize
     count  : the 4 bytes at offset HeaderBytes as a bit pattern, read as a
              little-endian unsigned number (CountBits bits in the model)
     recs   : the complete RecordBytes-byte records that follow the count,
              each already decoded to its three vertices
     text   : readlines() of the file opened in text mode, or None when its
              bytes do not decode
     facets : for a file written as text, the kind of each facet written;
              the program does not read it
   A line is [text |-> its characters before the numbers,
              nums |-> the numeric tokens the regex finds in it]. *)

Whitespace == {" ", "\t", "\n"}

RECURSIVE LStrip(_)
LStrip(s) ==
    IF s # <<>> /\ Head(s) \in Whitespace THEN LStrip(Tail(s)) ELSE s

RECURSIVE RStrip(_)
RStrip(s) ==
    IF s # <<>> /\ s[Len(s)] \in Whitespace
    THEN RStrip(SubSeq(s, 1, Len(s) - 1)) ELSE s

Strip(s) == RStrip(LStrip(s))

LowerChar(c) ==
    CASE c = "F" -> "f" [] c = "A" -> "a" [] c = "C" -> "c"
      [] c = "E" -> "e" [] c = "T" -> "t" [] c = "S" -> "s"
      [] c = "O" -> "o" [] c = "L" -> "l" [] c = "I" -> "i"
      [] c = "D" -> "d" [] OTHER -> c

Lower(s) == [i \in 1..Len(s) |-> LowerChar(s[i])]

StartsWith(s, prefix) ==
    Len(s) >= Len(prefix) /\ SubSeq(s, 1, Len(prefix)) = prefix

solid == <<"s", "o", "l", "i", "d">>
facet == <<"f", "a", "c", "e", "t">>

\* len(f.read(n)) with the file position at pos
ReadLen(f, pos, n) ==
    IF f.size <= pos THEN 0 ELSE Min2(n, f.size - pos)

\* struct.unpack('<I', raw)[0]
UnpackUnsigned(raw) == raw

\* struct.unpack("@i", raw)[0] on a little-endian host: two's complement
UnpackInt(raw) ==
    IF raw >= Pow(2, CountBits - 1) THEN raw - Pow(2, CountBits) ELSE raw

\* a variant that compares the header without stripping it
IsBinaryUnstripped(f) ==
    IF ~StartsWith(f.header, solid) THEN TRUE
    ELSE IF ReadLen(f, HeaderBytes, CountBytes) < CountBytes THEN FALSE
    ELSE f.size = HeaderBytes + CountBytes + UnpackUnsigned(f.count) * RecordBytes

\* is_binary
IsBinary(f) ==
    IF ~StartsWith(LStrip(f.header), solid) THEN TRUE
    ELSE IF ReadLen(f, HeaderBytes, CountBytes) < CountBytes THEN FALSE
    ELSE LET count == UnpackUnsigned(f.count)
             expected_size == HeaderBytes + CountBytes + count * RecordBytes
         IN  f.size = expected_size

\* _parse_vertices
ParseVertices(line) == SubSeq(line.nums, 1, Min2(3, Len(line.nums)))

\* read_ascii_triangle; index counts lines from 1
ReadAsciiTriangle(lines, index) ==
    IF index + 4 > Len(lines) THEN None
    ELSE LET p1 == ParseVertices(lines[index + 2])
             p2 == ParseVertices(lines[index + 3])
             p3 == ParseVertices(lines[index + 4])
         IN  IF Len(p1) < 3 \/ Len(p2) < 3 \/ Len(p3) < 3 THEN None
             ELSE Some(<<p1, p2, p3>>)

\* the while loop of loadSTL's ASCII branch, from line i on
RECURSIVE ScanLines(_, _, _)
ScanLines(lines, i, ascii_triangles) ==
    IF i > Len(lines) THEN ascii_triangles
    ELSE IF StartsWith(Lower(Strip(lines[i].text)), facet)
         THEN LET tri == ReadAsciiTriangle(lines, i)
              IN  ScanLines(lines, i + FacetLines,
                      IF tri # None THEN Append(ascii_triangles, tri[1])
                      ELSE ascii_triangles)
         ELSE ScanLines(lines, i + 1, ascii_triangles)

\* the object right after __init__
FreshObject ==
    [is_binary_file  |-> None,
     triangles       |-> <<>>,
     triangle_count  |-> 0,
     file_size       |-> 0,
     bounding_box_cm |-> None,
     bbox_min        |-> <<0, 0, 0>>,
     is_watertight   |-> None]

\* a variant that keeps a bounding box computed before
FinishLoadKeepsBox(self) ==
    LET bb == IF self.bounding_box_cm = None
              THEN CalculateBoundingBox(self.triangles)
              ELSE [bounding_box_cm |-> self.bounding_box_cm[1],
                    bbox_min |-> self.bbox_min]
        wt == CheckWatertight(self.triangles)
    IN  [obj |-> [self EXCEPT !.bounding_box_cm = Some(bb.bounding_box_cm),
                              !.bbox_min = bb.bbox_min,
                              !.is_watertight = Some(wt)],
         ok |-> TRUE,
         printed |-> IF wt THEN {} ELSE {"not_watertight"},
         handles |-> <<>>]

\* the tail of loadSTL's try block: bounding box, watertightness, warning
FinishLoad(self) ==
    LET bb == CalculateBoundingBox(self.triangles)
        wt == CheckWatertight(self.triangles)
    IN  [obj |-> [self EXCEPT !.bounding_box_cm = Some(bb.bounding_box_cm),
                              !.bbox_min = bb.bbox_min,
                              !.is_watertight = Some(wt)],
         ok |-> TRUE,
         printed |-> IF wt THEN {} ELSE {"not_watertight"},
         handles |-> <<>>]

\* except Exception: print, sys.exit(1)
FailLoad(self) ==
    [obj |-> self, ok |-> FALSE, printed |-> {"load_error"}, handles |-> <<>>]

\* a variant of the file handling that closes the file after the block:
\* f = open(...); block; f.close()
OpenThenClose(completed) ==
    IF completed THEN <<"open", "close">> ELSE <<"open">>

\* with open(...) as f: block.  The events on the file; the with statement
\* closes it when the block is left, whether it completed or raised.
WithOpen(completed) == <<"open", "close">>

\* the binary branch of loadSTL; every failure is raised inside its with
\* block
LoadBinary(self, f) ==
    LET r == IF ReadLen(f, HeaderBytes, CountBytes) < CountBytes
             THEN FailLoad(self)
             ELSE LET n  == UnpackInt(f.count)
                      s1 == [self EXCEPT !.triangle_count = n]
                  IN  IF n <= 0 THEN FinishLoad(s1)
                      ELSE IF n > Len(f.recs)
                      THEN FailLoad([s1 EXCEPT !.triangles = f.recs])
                      ELSE FinishLoad([s1 EXCEPT
                                          !.triangles = SubSeq(f.recs, 1, n)])
    IN  [r EXCEPT !.handles = WithOpen(r.ok)]

\* the ASCII branch of loadSTL; readlines() fails inside its with block
LoadAscii(self, f) ==
    LET r == IF f.text = None THEN FailLoad(self)
             ELSE LET tris == ScanLines(f.text[1], 1, <<>>)
                  IN  FinishLoad([self EXCEPT !.triangles = tris,
                                              !.triangle_count = Len(tris)])
    IN  [r EXCEPT !.handles = WithOpen(r.ok)]

\* loadSTL on the object `self`: the object afterwards, whether the call
\* returned (ok) or ended in sys.exit(1), what it printed, and the opens
\* and closes of the file, those of is_binary first (is_binary returns from
\* inside its with block on every path)
LoadSTL(self, f) ==
    LET bin == IsBinary(f)
        s0  == [self EXCEPT !.file_size = f.size,
                            !.is_binary_file = Some(bin),
                            !.triangles = <<>>]
        r   == IF bin THEN LoadBinary(s0, f) ELSE LoadAscii(s0, f)
    IN  [r EXCEPT !.handles = WithOpen(TRUE) \o @]

\* a variant that warns whenever `total` is not positive
CalculateVolumeWarnsOnZero(self) ==
    LET tt == TranslatedTriangles(self.triangles, self.bbox_min)
        t  == VolumeTotal(tt, 1, Len(tt))
    IN  [total |-> t,
         printed |-> IF t <= 0 THEN {"reversed_normals"} ELSE {},
         ret |-> Abs(t)]

\* calculate_volume: `total` (times 6), the warning, the returned cm3
CalculateVolume(self) ==
    LET tt == TranslatedTriangles(self.triangles, self.bbox_min)
        t  == VolumeTotal(tt, 1, Len(tt))
    IN  [total |-> t,
         printed |-> IF t < 0 THEN {"reversed_normals"} ELSE {},
         ret |-> Abs(t)]

\* a variant whose loop leaves out the last triangle
CalculateSurfaceAreaSkipsLast(self) ==
    AreaTotal(self.triangles, 1, Len(self.triangles) - 1)

\* calculate_surface_area: the returned cm2
CalculateSurfaceArea(self) ==
    AreaTotal(self.triangles, 1, Len(self.triangles))

\* f"{x:.{places}f}" of the rational num / den >= 0, as a count of
\* 10^-places (round half to even)
Format(num, den, places) ==
    LET scaled == num * Pow(10, places)
        q == scaled \div den
        r == scaled % den
    IN  IF 2 * r > den \/ (2 * r = den /\ q % 2 = 1) THEN q + 1 ELSE q

\* a float that is not a count of a fixed unit: the rational num / den in
\* lowest terms (num >= 0, den > 0)
RECURSIVE Gcd(_, _)
Gcd(a, b) == IF b = 0 THEN a ELSE Gcd(b, a % b)
Rat(num, den) ==
    LET g == Gcd(num, den) IN [num |-> num \div g, den |-> den \div g]

\* x * y of two such floats
RatMul(x, y) ==
    LET a == Rat(x.num, y.den)
        b == Rat(y.num, x.den)
    IN  [num |-> a.num * b.num, den |-> a.den * b.den]

\* materials_dict: the 'mass' of material 1..21, in 1/DensityDen g/cm3
Materials ==
    <<1250, 1270, 1020, 1200, 1200, 950, 1010, 1180, 1360, 7800, 7860, 2698,
      4410, 8600, 9000, 9000, 10260, 13600, 15600, 1790, 700>>

\* a variant that forgets the density
CalculateMassNoDensity(volume_cm3, density_g_cm3) == volume_cm3

\* calculate_mass
CalculateMass(volume_cm3, density_g_cm3) == RatMul(volume_cm3, density_g_cm3)

\* the two mass entries main() builds for a material of the given density
\* from volume_cm3 and adjusted
MassEntries(volume_cm3, adjusted, infill, mass) ==
    [mass_at_infill |->
         [infill_percent |-> infill,
          mass_g |-> LET m == CalculateMass(adjusted, Rat(mass, DensityDen))
                     IN  Format(m.num, m.den, 3)],
     mass_at_100_infill |->
         [infill_percent |-> FullInfill,
          mass_g |-> LET m == CalculateMass(volume_cm3, Rat(mass, DensityDen))
                     IN  Format(m.num, m.den, 3)]]

\* the results record main() builds after a load that returned, from the
\* object, the parsed options a and its locals volume_cm3 and area_cm2 (the
\* counts of 1/VolumeDen cm3 and 1/AreaDen cm2 the calculations returned).
\* a.calculation is None (full analysis), Some("volume") or Some("area").
\* The file name, the material names and volume_inch3 are left out.
MainResults(self, a, volume_cm3, area_cm2) ==
    LET bbox == self.bounding_box_cm[1]
        calculation == a.calculation
        vol == Rat(volume_cm3, VolumeDen)
        adjusted == RatMul(vol, Rat(a.infill, InfillDen))
    IN  IF calculation = None
        THEN [file_information |->
                 [file_size_kb  |-> Format(self.file_size, BytesPerKb, 2),
                  is_watertight |-> self.is_watertight],
              model_properties |->
                 [triangle_count |-> self.triangle_count,
                  bounding_box_cm |->
                      [width  |-> Format(bbox.width, BBoxDen, 2),
                       depth  |-> Format(bbox.depth, BBoxDen, 2),
                       height |-> Format(bbox.height, BBoxDen, 2)],
                  surface_area_cm2 |-> Format(area_cm2, AreaDen, 4),
                  volume_cm3 |-> Format(volume_cm3, VolumeDen, 4)],
              mass_estimates |->
                 [mat_id \in DOMAIN Materials |->
                     [id |-> mat_id, density_g_cm3 |-> Materials[mat_id]]
                     @@ MassEntries(vol, adjusted, a.infill, Materials[mat_id])]]
        ELSE IF calculation = Some("volume")
        THEN [calculation |-> "volume",
              bounding_box_cm |-> bbox,
              is_watertight |-> self.is_watertight,
              volume_cm3 |-> Format(volume_cm3, VolumeDen, 4)]
             @@ MassEntries(vol, adjusted, a.infill, Materials[a.material])
        ELSE [calculation |-> "area",
              bounding_box_cm |-> bbox,
              is_watertight |-> self.is_watertight,
              surface_area_cm2 |-> Format(area_cm2, AreaDen, 4)]

----------------------------------------------------------------------------
(* Inputs: the triangle lists and the files the model loads *)

PA == <<4, 0, 0>>
PB == <<0, 3, 0>>
PC == <<4, 0, 1>>

\* a small universe of triangles: the six windings of one facet and three
\* zero-area triangles
FreeTriangles ==
    {<<PA, PB, PC>>, <<PB, PC, PA>>, <<PC, PA, PB>>,
     <<PA, PC, PB>>, <<PC, PB, PA>>, <<PB, PA, PC>>,
     <<PA, PA, PB>>, <<PA, PA, PC>>, <<PA, PA, PA>>}

FreeLists == UNION {[1..n -> FreeTriangles] : n \in 0..MaxFree}

\* the records written by a generator that alternates the two windings
StripTriangle(i) == IF i % 2 = 1 THEN <<PA, PB, PC>> ELSE <<PA, PC, PB>>
StripList(n) == [i \in 1..n |-> StripTriangle(i)]

\* the axis-aligned box with edges d = <<a, b, c>> and minimum corner o,
\* 12 triangles wound counter-clockwise seen from outside
Box(d, o) ==
    LET V(i, j, k) == <<o[1] + i * d[1], o[2] + j * d[2], o[3] + k * d[3]>>
    IN  <<<<V(0,0,0), V(0,1,0), V(1,1,0)>>, <<V(0,0,0), V(1,1,0), V(1,0,0)>>,
          <<V(0,0,1), V(1,0,1), V(1,1,1)>>, <<V(0,0,1), V(1,1,1), V(0,1,1)>>,
          <<V(0,0,0), V(1,0,0), V(1,0,1)>>, <<V(0,0,0), V(1,0,1), V(0,0,1)>>,
          <<V(0,1,0), V(0,1,1), V(1,1,1)>>, <<V(0,1,0), V(1,1,1), V(1,1,0)>>,
          <<V(0,0,0), V(0,0,1), V(0,1,1)>>, <<V(0,0,0), V(0,1,1), V(0,1,0)>>,
          <<V(1,0,0), V(1,1,0), V(1,1,1)>>, <<V(1,0,0), V(1,1,1), V(1,0,1)>>>>

BoxDims == {<<10, 10, 10>>, <<1, 2, 3>>}
Offsets == {<<0, 0, 0>>, <<1000, 1000, 1000>>, <<-7, 5, -1000>>}

Reversed(tri) == <<tri[1], tri[3], tri[2]>>
ReverseAll(tris) == [i \in 1..Len(tris) |-> Reversed(tris[i])]
ReverseOne(tris, k) ==
    [i \in 1..Len(tris) |-> IF i = k THEN Reversed(tris[i]) ELSE tris[i]]
Backwards(tris) == [i \in 1..Len(tris) |-> tris[Len(tris) + 1 - i]]
DeleteOne(tris, k) ==
    [i \in 1..(Len(tris) - 1) |-> IF i < k THEN tris[i] ELSE tris[i + 1]]
Translate(tris, d) ==
    [i \in 1..Len(tris) |->
        [j \in 1..3 |-> [a \in 1..3 |-> tris[i][j][a] + d[a]]]]

\* a box and the meshes one edit away from it
BoxVariants(box) ==
    {box, ReverseAll(box), Append(box, box[1]), Backwards(box)}
    \cup {DeleteOne(box, k) : k \in 1..Len(box)}
    \cup {ReverseOne(box, k) : k \in {1, Len(box)}}

BoxLists == UNION {BoxVariants(Box(d, o)) : d \in BoxDims, o \in Offsets}

MeshLists == FreeLists \cup BoxLists

\* number of complete records in a file of the given size
RecordsIn(size) ==
    IF size < HeaderBytes + CountBytes THEN 0
    ELSE (size - HeaderBytes - CountBytes) \div RecordBytes

BinaryFile(header, count, recs, tail, text) ==
    [header |-> header,
     size   |-> HeaderBytes + CountBytes + Len(recs) * RecordBytes + tail,
     count  |-> count,
     recs   |-> recs,
     text   |-> text,
     facets |-> <<>>]

\* a file that ends before its count field is complete
ShortFile(header, size, text) ==
    [header |-> header, size |-> size, count |-> 0, recs |-> <<>>,
     text |-> text, facets |-> <<>>]

\* ---- text files ----

TextLine(chars, nums) == [text |-> chars, nums |-> nums]

SolidLine    == TextLine(solid \o <<" ", "m">>, <<>>)
EndSolidLine == TextLine(<<"e", "n", "d", "s", "o", "l", "i", "d">>, <<>>)
FacetLine    == TextLine(facet \o <<" ", "n", "o", "r", "m", "a", "l">>,
                         <<0, 0, 0>>)
UpperFacetLine == TextLine(<<" ", " ", "F", "A", "C", "E", "T">>, <<0, 0, 0>>)
OuterLine    == TextLine(<<" ", "o", "u", "t", "e", "r">>, <<>>)
EndLoopLine  == TextLine(<<" ", "e", "n", "d", "l", "o", "o", "p">>, <<>>)
EndFacetLine == TextLine(<<"e", "n", "d", "f", "a", "c", "e", "t">>, <<>>)
VertexLine(p) == TextLine(<<" ", "v", "e", "r", "t", "e", "x">>, p)

FacetKinds == {"ok", "upper", "short_vertex", "missing_vertex"}

\* the lines of one facet: well formed, well formed in upper case, with a
\* vertex line of two numbers, with its last vertex line missing
FacetText(tri, kind) ==
    CASE kind = "ok" ->
           <<FacetLine, OuterLine, VertexLine(tri[1]), VertexLine(tri[2]),
             VertexLine(tri[3]), EndLoopLine, EndFacetLine>>
      [] kind = "upper" ->
           <<UpperFacetLine, OuterLine, VertexLine(tri[1]),
             VertexLine(tri[2]), VertexLine(tri[3]), EndLoopLine,
             EndFacetLine>>
      [] kind = "short_vertex" ->
           <<FacetLine, OuterLine, VertexLine(tri[1]),
             VertexLine(<<tri[2][1], tri[2][2]>>), VertexLine(tri[3]),
             EndLoopLine, EndFacetLine>>
      [] kind = "missing_vertex" ->
           <<FacetLine, OuterLine, VertexLine(tri[1]), VertexLine(tri[2]),
             EndLoopLine, EndFacetLine>>

\* the lines of facets lo..hi
RECURSIVE FacetsText(_, _, _, _)
FacetsText(tris, kinds, lo, hi) ==
    IF lo > hi THEN <<>>
    ELSE IF lo = hi THEN FacetText(tris[lo], kinds[lo])
    ELSE FacetsText(tris, kinds, lo, (lo + hi) \div 2)
         \o FacetsText(tris, kinds, ((lo + hi) \div 2) + 1, hi)

SolidText(tris, kinds) ==
    <<SolidLine>> \o FacetsText(tris, kinds, 1, Len(tris)) \o <<EndSolidLine>>

RECURSIVE Digits(_)
Digits(n) == IF n < 10 THEN 1 ELSE 1 + Digits(n \div 10)

RECURSIVE NumsBytes(_, _)
NumsBytes(nums, k) ==
    IF k = 0 THEN 0
    ELSE NumsBytes(nums, k - 1) + 1 + Digits(Abs(nums[k]))
         + (IF nums[k] < 0 THEN 1 ELSE 0)

\* the bytes of the lines written out, one byte per character and newline
RECURSIVE TextBytes(_, _, _)
TextBytes(lines, lo, hi) ==
    IF lo > hi THEN 0
    ELSE IF lo = hi
    THEN Len(lines[lo].text) + NumsBytes(lines[lo].nums, Len(lines[lo].nums))
         + 1
    ELSE TextBytes(lines, lo, (lo + hi) \div 2)
         + TextBytes(lines, ((lo + hi) \div 2) + 1, hi)

\* the count field of a text file holds four characters: the largest bit
\* pattern with a clear top bit stands for them
TextCount == Pow(2, CountBits - 1) - 1

\* the solid written as text: its facets are tris, facet i of kind kinds[i]
TextFile(tris, kinds) ==
    LET lines == SolidText(tris, kinds)
        size  == TextBytes(lines, 1, Len(lines))
    IN  [header |-> lines[1].text,
         size   |-> size,
         count  |-> IF size < HeaderBytes + CountBytes THEN 0 ELSE TextCount,
         recs   |-> [i \in 1..RecordsIn(size) |-> <<PA, PA, PA>>],
         text   |-> Some(lines),
         facets |-> kinds]

\* ---- the families of files ----

\* headers for the sniffer: a binary header, the token, the token after
\* white space, in upper case, cut short, after other text, run on, empty
Headers ==
    {<<"b", "i", "n">>,
     solid,
     <<" ", "\n", "\t">> \o solid \o <<" ", "m">>,
     <<"S", "O", "L", "I", "D">>,
     <<"s", "o", "l", "i">>,
     <<"x">> \o solid,
     solid \o <<"x">>,
     <<>>}

\* the text view of a file that holds no facet line
NoFacetTexts(header) == {None, Some(<<TextLine(header, <<>>)>>)}

\* bytes of an incomplete trailing record, of an incomplete count field
TailBytes == RecordBytes - 1
PartCountBytes == CountBytes \div 2

SniffFiles ==
    {ShortFile(h, Len(h), t) : h \in Headers, t \in {None}}
    \cup UNION {{ShortFile(h, HeaderBytes + c, t) : t \in NoFacetTexts(h)}
                : h \in Headers, c \in {0, PartCountBytes}}
    \cup UNION {{BinaryFile(h, n, StripList(k), tail, t) : t \in NoFacetTexts(h)}
                : h \in Headers, n \in 0..MaxFree, k \in 0..MaxFree,
                  tail \in {0, TailBytes}}

\* files written in the binary layout: every count, over one record too
\* few, the records it declares and one record too many
CountFiles ==
    UNION {{BinaryFile(h, n, StripList(k), tail, None) :
               h \in {<<"b", "i", "n">>, solid},
               k \in {n - 1, n, n + 1} \ {-1},
               tail \in {0, TailBytes}}
           : n \in 0..(Pow(2, CountBits) - 1)}

\* every mesh, written in the binary layout and as text
MeshFiles ==
    {BinaryFile(<<"b", "i", "n">>, Len(m), m, 0, None) : m \in MeshLists}
    \cup {TextFile(m, [i \in 1..Len(m) |-> "ok"]) : m \in MeshLists}

\* text files of up to MaxFacets facets of every kind
FacetFiles ==
    UNION {{TextFile(StripList(k), kinds) : kinds \in [1..k -> FacetKinds]}
           : k \in 0..MaxFacets}

Files == SniffFiles \cup CountFiles \cup MeshFiles \cup FacetFiles

Calculations == {None, Some("volume"), Some("area")}

----------------------------------------------------------------------------
(* The state machine *)

\* the object as a record
Self ==
    [is_binary_file  |-> is_binary_file,
     triangles       |-> triangles,
     triangle_count  |-> triangle_count,
     file_size       |-> file_size,
     bounding_box_cm |-> bounding_box_cm,
     bbox_min        |-> bbox_min,
     is_watertight   |-> is_watertight]

SetObject(obj) ==
    /\ is_binary_file' = obj.is_binary_file
    /\ triangles' = obj.triangles
    /\ triangle_count' = obj.triangle_count
    /\ file_size' = obj.file_size
    /\ bounding_box_cm' = obj.bounding_box_cm
    /\ bbox_min' = obj.bbox_min
    /\ is_watertight' = obj.is_watertight

\* how many of the handles opened in the log are still open at its end
StillOpen(log) ==
    Cardinality({i \in DOMAIN log : log[i] = "open"})
    - Cardinality({i \in DOMAIN log : log[i] = "close"})

\* the file events of a load, recorded
LogHandles(log) ==
    /\ file_log' = log
    /\ open_handles' = open_handles + StillOpen(log)

Init ==
    /\ pc = "start"
    /\ infile = None
    /\ is_binary_file = FreshObject.is_binary_file
    /\ triangles = FreshObject.triangles
    /\ triangle_count = FreshObject.triangle_count
    /\ file_size = FreshObject.file_size
    /\ bounding_box_cm = FreshObject.bounding_box_cm
    /\ bbox_min = FreshObject.bbox_min
    /\ is_watertight = FreshObject.is_watertight
    /\ console = {}
    /\ total = None
    /\ volume_ret = None
    /\ area_ret = None
    /\ results = None
    /\ args = None
    /\ file_log = <<>>
    /\ open_handles = 0

\* stl.loadSTL(f) on the object, fresh or loaded before
Load(f) ==
    /\ pc \in {"start", "loaded"}
    /\ \E r \in {LoadSTL(Self, f)} :
           /\ SetObject(r.obj)
           /\ console' = console \cup r.printed
           /\ pc' = IF r.ok THEN "loaded" ELSE "exited"
           /\ LogHandles(r.handles)
    /\ infile' = Some(f)
    /\ total' = None
    /\ volume_ret' = None
    /\ area_ret' = None
    /\ UNCHANGED <<results, args>>

\* stl.calculate_volume()
Volume ==
    /\ pc = "loaded"
    /\ \E r \in {CalculateVolume(Self)} :
           /\ total' = Some(r.total)
           /\ volume_ret' = Some(r.ret)
           /\ console' = console \cup r.printed
    /\ UNCHANGED <<pc, infile, is_binary_file, triangles, triangle_count,
                   file_size, bounding_box_cm, bbox_min, is_watertight,
                   area_ret, results, args, file_log, open_handles>>

\* stl.calculate_surface_area()
SurfaceArea ==
    /\ pc = "loaded"
    /\ area_ret' = Some(CalculateSurfaceArea(Self))
    /\ UNCHANGED <<pc, infile, is_binary_file, triangles, triangle_count,
                   file_size, bounding_box_cm, bbox_min, is_watertight,
                   console, total, volume_ret, results, args, file_log,
                   open_handles>>

\* main() once the load has returned: the calculations the option selects
\* and the results record
MainReport(obj, printed, a) ==
    \E v \in {IF a.calculation # Some("area") THEN Some(CalculateVolume(obj))
              ELSE None},
       ar \in {IF a.calculation # Some("volume")
               THEN Some(CalculateSurfaceArea(obj)) ELSE None} :
        /\ pc' = "reported"
        /\ total' = IF v # None THEN Some(v[1].total) ELSE None
        /\ volume_ret' = IF v # None THEN Some(v[1].ret) ELSE None
        /\ area_ret' = ar
        /\ console' = console \cup printed
                              \cup (IF v # None THEN v[1].printed ELSE {})
        /\ results' = Some(MainResults(obj, a,
                               IF v # None THEN v[1].ret ELSE 0,
                               IF ar # None THEN ar[1] ELSE 0))

\* main() on file f with the options a: the infill check, a fresh object,
\* the load, and the report unless the load ended the process
Main(f, a) ==
    /\ pc = "start"
    /\ args' = Some(a)
    /\ IF ~(0 <= a.infill /\ a.infill <= MaxInfill)
       THEN /\ pc' = "usage_error"
            /\ console' = console \cup {"infill_error"}
            /\ UNCHANGED <<infile, is_binary_file, triangles, triangle_count,
                           file_size, bounding_box_cm, bbox_min,
                           is_watertight, total, volume_ret, area_ret,
                           results, file_log, open_handles>>
       ELSE /\ \E r \in {LoadSTL(FreshObject, f)} :
                   /\ SetObject(r.obj)
                   /\ LogHandles(r.handles)
                   /\ IF r.ok THEN MainReport(r.obj, r.printed, a)
                      ELSE /\ pc' = "exited"
                           /\ console' = console \cup r.printed
                           /\ UNCHANGED <<total, volume_ret, area_ret, results>>
            /\ infile' = Some(f)

\* a caller that constructs the object and loads a file
LoadCall == pc = "start" /\ \E f \in Files : Load(f)

\* the command line: python volume_calculator.py f [--calculation c]
MainCall ==
    pc = "start"
    /\ \E f \in Files, calculation \in Calculations :
           Main(f, [calculation |-> calculation, infill |-> DefaultInfill,
                    material |-> DefaultMaterial])

\* the meshes, files and options of the runs that vary --infill and
\* --material
MassMeshes ==
    BoxVariants(Box(<<10, 10, 10>>, <<0, 0, 0>>))
    \cup {Box(<<1, 2, 3>>, o) : o \in Offsets}
    \cup UNION {[1..n -> FreeTriangles] : n \in 0..1}
MassFiles ==
    {BinaryFile(<<"b", "i", "n">>, Len(m), m, 0, None) : m \in MassMeshes}
    \cup {BinaryFile(<<"b", "i", "n">>, MaxFree + 1, StripList(MaxFree), 0, None)}
Infills == {-1, 0, 1, DefaultInfill, 50, MaxInfill, MaxInfill + 1}
MaterialIds == {DefaultMaterial, 12, 19, Len(Materials)}

\* the command line: python volume_calculator.py f [--calculation c]
\* [--infill i] [--material m]
MassCall ==
    pc = "start"
    /\ \E f \in MassFiles, calculation \in Calculations, infill \in Infills,
          material \in MaterialIds :
           Main(f, [calculation |-> calculation, infill |-> infill,
                    material |-> material])

Next ==
    \/ LoadCall
    \/ Volume
    \/ SurfaceArea
    \/ MainCall

Spec == Init /\ [][Next]_vars

\* the files a caller loads one after the other into one object
ReloadMeshes ==
    {Box(<<10, 10, 10>>, <<1000, 1000, 1000>>),
     ReverseAll(Box(<<10, 10, 10>>, <<0, 0, 0>>)),
     DeleteOne(Box(<<1, 2, 3>>, <<-7, 5, -1000>>), 3),
     <<<<PA, PB, PC>>>>,
     <<<<PA, PA, PB>>, <<PA, PA, PC>>>>,
     <<>>}
ReloadFiles ==
    {BinaryFile(<<"b", "i", "n">>, Len(m), m, 0, None) : m \in ReloadMeshes}
    \cup {TextFile(m, [i \in 1..Len(m) |-> "ok"]) : m \in ReloadMeshes}
    \cup {TextFile(StripList(MaxFacets),
                   [i \in 1..MaxFacets |->
                       IF i = 1 THEN "missing_vertex" ELSE "ok"]),
          BinaryFile(<<"b", "i", "n">>, Pow(2, CountBits) - 1,
                     StripList(MaxFree), 0, None),
          BinaryFile(<<"b", "i", "n">>, MaxFree + 1, StripList(MaxFree), 0,
                     None)}

\* a caller that loads a file into the object it has
ReloadCall == pc \in {"start", "loaded"} /\ \E f \in ReloadFiles : Load(f)

\* one object, loaded and measured any number of times
NextReload ==
    \/ ReloadCall
    \/ Volume
    \/ SurfaceArea
SpecReload == Init /\ [][NextReload]_vars

\* the runs of main() over infill percentages and materials
NextMass == MassCall
SpecMass == Init /\ [][NextMass]_vars

-----------------------------------------------------------------------------
(* Properties *)

\* a load or a run of main has ended, one way or the other
Ended == pc # "start"

\* the load returned (the process did not exit)
Returned == pc \in {"loaded", "reported"}

\* the bytes a binary file of n records needs
BytesNeeded(n) == HeaderBytes + CountBytes + RecordBytes * n

\* the file has a complete count field
HasCount(f) == f.size >= HeaderBytes + CountBytes

\* C1 (for the files loadSTL reads as binary): when the count n declared at
\* offset 80 needs more bytes than the file holds, size < 84 + 50 * n, the
\* load fails; it never returns with fewer than n triangles.
C1_OverrunIsFatal ==
    (/\ Ended
     /\ is_binary_file = Some(TRUE)
     /\ HasCount(infile[1])
     /\ infile[1].size < BytesNeeded(infile[1].count))
    => pc = "exited"

\* the facets of the loaded text file are all well formed but one, which
\* lacks a vertex line
OneFacetMissesVertex(f) ==
    /\ f.facets # <<>>
    /\ Cardinality({i \in DOMAIN f.facets : f.facets[i] = "missing_vertex"}) = 1
    /\ \A i \in DOMAIN f.facets : f.facets[i] \in {"ok", "missing_vertex"}

\* C2: an ASCII file of k facets, exactly one of which lacks a vertex line,
\* loads successfully with triangle_count = k - 1, wherever the malformed
\* facet stands: the other k - 1 facets are all read.
C2_OnlyMalformedFacetDropped ==
    (/\ Ended
     /\ is_binary_file = Some(FALSE)
     /\ OneFacetMissesVertex(infile[1]))
    => /\ Returned
       /\ triangle_count = Len(infile[1].facets) - 1
       /\ Len(triangles) = triangle_count

\* C3: a file read as binary whose count field is n as an unsigned number
\* and which holds at least n complete records loads exactly its first n
\* records, in file order, with triangle_count = n, for every n of the
\* modelled width.
C3_UnsignedCountLoaded ==
    (/\ Ended
     /\ is_binary_file = Some(TRUE)
     /\ HasCount(infile[1])
     /\ Len(infile[1].recs) >= infile[1].count)
    => /\ Returned
       /\ triangle_count = infile[1].count
       /\ triangles = SubSeq(infile[1].recs, 1, infile[1].count)

\* the header, after some leading whitespace, begins with the token `solid`
BeginsWithSolid(h) ==
    \E k \in 0..Len(h) :
        /\ \A i \in 1..k : h[i] \in Whitespace
        /\ Len(h) >= k + Len(solid)
        /\ \A i \in 1..Len(solid) : h[k + i] = solid[i]

\* C4: is_binary answers Binary exactly when the trimmed header does not
\* begin with `solid`, or it does, the 4 count bytes are there, and the file
\* size is 80 + 4 + 50 * n for the unsigned count n; Text in every other
\* case.
C4_SniffRule ==
    Ended =>
        (is_binary_file[1] <=>
            \/ ~BeginsWithSolid(infile[1].header)
            \/ /\ HasCount(infile[1])
               /\ infile[1].size = BytesNeeded(infile[1].count))

\* C4's cases: a `solid` header after whitespace whose size matches its
\* count is read as binary
C4_Witness ==
    /\ Ended
    /\ BeginsWithSolid(infile[1].header)
    /\ infile[1].header[1] \in Whitespace
    /\ infile[1].count > 0
    /\ is_binary_file = Some(TRUE)

\* the undirected edges of a triangle: unordered pairs of rounded vertices
EdgesOfTriangle(tri) ==
    {{RoundPoint(tri[1]), RoundPoint(tri[2])},
     {RoundPoint(tri[2]), RoundPoint(tri[3])},
     {RoundPoint(tri[3]), RoundPoint(tri[1])}}

EdgesOfMesh(tris) == UNION {EdgesOfTriangle(tris[i]) : i \in DOMAIN tris}

\* the triangles of the list that have the edge
TrianglesWithEdge(tris, e) == {i \in DOMAIN tris : e \in EdgesOfTriangle(tris[i])}

\* C5: after a load, is_watertight is true only when every undirected edge
\* of the loaded triangles occurs in exactly 2 triangles (an edge in 1
\* triangle, or in more than 2, makes it false).
C5_WatertightOnlyIfEveryEdgeInTwoTriangles ==
    (Returned /\ is_watertight = Some(TRUE)) =>
        \A e \in EdgesOfMesh(triangles) :
            Cardinality(TrianglesWithEdge(triangles, e)) = 2

\* the scalar triple product p1 . (p2 x p3)
Dot(u, v) == u[1] * v[1] + u[2] * v[2] + u[3] * v[3]
Cross(u, v) ==
    <<u[2] * v[3] - u[3] * v[2], u[3] * v[1] - u[1] * v[3],
      u[1] * v[2] - u[2] * v[1]>>
TripleProduct(p1, p2, p3) == Dot(p1, Cross(p2, p3))

\* the least coordinate of the mesh on an axis, and its minimum corner
LeastOn(tris, a) ==
    CHOOSE m \in {tris[i][j][a] : i \in DOMAIN tris, j \in 1..3} :
        \A i \in DOMAIN tris, j \in 1..3 : m <= tris[i][j][a]
MinCorner(tris) ==
    IF tris = <<>> THEN <<0, 0, 0>>
    ELSE <<LeastOn(tris, 1), LeastOn(tris, 2), LeastOn(tris, 3)>>

Minus(p, o) == <<p[1] - o[1], p[2] - o[2], p[3] - o[3]>>

\* six times S: the sum, over triangles lo..hi, of the triple product of
\* the triangle moved by -o
RECURSIVE TripleSum(_, _, _, _)
TripleSum(tris, o, lo, hi) ==
    IF lo > hi THEN 0
    ELSE IF lo = hi
    THEN TripleProduct(Minus(tris[lo][1], o), Minus(tris[lo][2], o),
                       Minus(tris[lo][3], o))
    ELSE TripleSum(tris, o, lo, (lo + hi) \div 2)
         + TripleSum(tris, o, ((lo + hi) \div 2) + 1, hi)

\* the points of the loaded triangles, as they are and moved by the
\* minimum corner
PointsOf(tris) ==
    UNION {{tris[i][j], Minus(tris[i][j], MinCorner(tris))}
           : i \in DOMAIN tris, j \in 1..3}

\* C6: calculate_volume returns |S| / 1000 (here |6 S| over 6 * 1000), S the
\* sum over the loaded triangles of (1/6) p1 . (p2 x p3) of the triangle
\* moved by the mesh's minimum corner; the six-term expansion equals the
\* triple product on every triple of points; the result is never negative.
C6_VolumeIsAbsTripleSum ==
    volume_ret # None =>
        /\ volume_ret[1] =
               Abs(TripleSum(triangles, MinCorner(triangles), 1, Len(triangles)))
        /\ volume_ret[1] >= 0
        /\ \A p1 \in PointsOf(triangles), p2 \in PointsOf(triangles),
              p3 \in PointsOf(triangles) :
               SignedVolumeOfTriangle(p1, p2, p3) = TripleProduct(p1, p2, p3)

\* C6's case: the volume of a mesh away from the origin whose signed sum is
\* negative
C6_Witness ==
    /\ volume_ret # None
    /\ total # None
    /\ total[1] < 0
    /\ volume_ret[1] > 0
    /\ Len(triangles) > 1
    /\ bbox_min # <<0, 0, 0>>

\* the offsets a mesh is moved by before it is loaded again
ShiftVectors == {<<1000, 1000, 1000>>, <<-1000, 0, 7>>, <<0, -3, 0>>}

\* calculate_volume on an object that loaded the triangles tris
VolumeOfLoaded(tris) ==
    CalculateVolume([FreshObject EXCEPT
                        !.triangles = tris,
                        !.bbox_min = CalculateBoundingBox(tris).bbox_min])

\* C7: moving every vertex of the mesh by one offset before loading it
\* leaves the result of calculate_volume unchanged, for every mesh and
\* offset.
C7_VolumeTranslationInvariant ==
    volume_ret # None =>
        \A d \in ShiftVectors :
            VolumeOfLoaded(Translate(triangles, d)).ret = volume_ret[1]

\* C7's case: the volume of an open mesh, whose signed sum depends on where
\* the origin is
C7_Witness ==
    /\ volume_ret # None
    /\ volume_ret[1] > 0
    /\ is_watertight = Some(FALSE)
    /\ Len(triangles) > 1
    /\ bbox_min # <<0, 0, 0>>

\* the mesh is one of the outward-wound boxes
IsBox(tris) == \E d \in BoxDims, o \in Offsets : tris = Box(d, o)

\* C8: reversing the winding of every triangle leaves the result of
\* calculate_volume unchanged and negates the raw sum; the warning is
\* printed exactly when the raw sum is negative; so the box prints none and
\* the reversed box prints it, with the same volume.
C8_ReversedWinding ==
    (volume_ret # None /\ total # None) =>
        LET r == VolumeOfLoaded(ReverseAll(triangles))
        IN  /\ r.ret = volume_ret[1]
            /\ r.total = - total[1]
            /\ ("reversed_normals" \in console) <=> (total[1] < 0)
            /\ ("reversed_normals" \in r.printed) <=> (r.total < 0)
            /\ IsBox(triangles) =>
                   /\ total[1] > 0
                   /\ "reversed_normals" \notin console
                   /\ "reversed_normals" \in r.printed

\* C8's case: the reversed cube, its volume computed and the warning printed
C8_Witness ==
    /\ \E o \in Offsets : triangles = ReverseAll(Box(<<10, 10, 10>>, o))
    /\ volume_ret = Some(VolumeDen)
    /\ total = Some(- VolumeDen)
    /\ "reversed_normals" \in console

\* what a results record says of the run
CalculationOf(res) ==
    IF "file_information" \in DOMAIN res THEN None ELSE Some(res.calculation)
WatertightIn(res) ==
    IF "file_information" \in DOMAIN res
    THEN res.file_information.is_watertight
    ELSE res.is_watertight

\* the results record main() builds for the same file with the triangles
\* tris in it
ResultsFor(tris) ==
    LET obj == FinishLoad([Self EXCEPT !.triangles = tris]).obj
    IN  MainResults(obj, args[1], CalculateVolume(obj).ret,
                    CalculateSurfaceArea(obj))

\* C9: neither non-fatal condition blocks the computation, and the result
\* handed to the caller tells each of them: the record says whether the
\* watertightness check failed, and the volume returned and the record
\* built for a mesh whose raw sum is negative differ from those of the same
\* mesh with the winding reversed, whose raw sum is not.
C9_ConditionsInResult ==
    (pc = "reported" /\ volume_ret # None) =>
        /\ WatertightIn(results[1]) = is_watertight
        /\ LET rev == ReverseAll(triangles)
           IN  (total[1] < 0) # (VolumeOfLoaded(rev).total < 0) =>
                   \/ ResultsFor(rev) # results[1]
                   \/ VolumeOfLoaded(rev).ret # volume_ret[1]

\* C10: the closed outward-wound box with edges a, b, c mm, wherever it is
\* placed, is watertight, prints no orientation warning, and has volume
\* a*b*c / 1000 cm3 and area 2*(a*b + b*c + c*a) / 100 cm2; the cube of edge
\* 10 has volume 1.000 and area 6.000.
C10_BoxVolumeAndArea ==
    \A d \in BoxDims, o \in Offsets :
        (Returned /\ triangles = Box(d, o)) =>
            /\ is_watertight = Some(TRUE)
            /\ "reversed_normals" \notin console
            /\ volume_ret # None =>
                   /\ volume_ret[1] * 1000 = d[1] * d[2] * d[3] * VolumeDen
                   /\ d = <<10, 10, 10>> => volume_ret[1] = 1 * VolumeDen
            /\ area_ret # None =>
                   /\ area_ret[1] * 100 =
                          2 * (d[1] * d[2] + d[2] * d[3] + d[3] * d[1]) * AreaDen
                   /\ d = <<10, 10, 10>> => area_ret[1] = 6 * AreaDen

\* C10's case: the cube of edge 10 away from the origin, volume and area
\* both computed
C10_Witness ==
    /\ triangles = Box(<<10, 10, 10>>, <<1000, 1000, 1000>>)
    /\ volume_ret = Some(VolumeDen)
    /\ area_ret = Some(6 * AreaDen)
    /\ is_watertight = Some(TRUE)

\* the cube of edge 10 at one of the positions, with triangle k deleted
IsCubeLessOne(tris) ==
    \E o \in Offsets, k \in 1..12 : tris = DeleteOne(Box(<<10, 10, 10>>, o), k)

\* C11: for the cube of edge 10 and each choice of the one triangle deleted
\* from it, calculate_volume on the remaining 11 triangles completes and
\* returns a value different from 1.000 cm3.
C11_OpenCubeVolumeDiffers ==
    (Returned /\ IsCubeLessOne(triangles) /\ volume_ret # None) =>
        volume_ret[1] # 1 * VolumeDen

\* a line the scan takes for the start of a facet
IsFacetLine(line) == StartsWith(Lower(Strip(line.text)), facet)

\* the file declares no triangle: a count of 0 when read as binary, no
\* facet line when read as text
YieldsNoTriangles(f, bin) ==
    IF bin THEN HasCount(f) /\ f.count = 0
    ELSE /\ f.text # None
         /\ \A i \in DOMAIN f.text[1] : ~IsFacetLine(f.text[1][i])

\* C12: a file that yields zero triangles loads without error, and after a
\* load with zero triangles the bounding box is 0 x 0 x 0, the origin is
\* (0, 0, 0), is_watertight is true, and calculate_volume and
\* calculate_surface_area return 0.
C12_EmptyMesh ==
    /\ (Ended /\ YieldsNoTriangles(infile[1], is_binary_file[1])) =>
           /\ Returned
           /\ triangles = <<>>
           /\ "load_error" \notin console
    /\ (Returned /\ triangles = <<>>) =>
           /\ bounding_box_cm = Some([width |-> 0, depth |-> 0, height |-> 0])
           /\ bbox_min = <<0, 0, 0>>
           /\ is_watertight = Some(TRUE)
           /\ volume_ret # None => volume_ret[1] = 0
           /\ area_ret # None => area_ret[1] = 0

\* C12's case: a text file without facets, loaded, volume and area computed
C12_Witness ==
    /\ Returned
    /\ is_binary_file = Some(FALSE)
    /\ YieldsNoTriangles(infile[1], FALSE)
    /\ triangles = <<>>
    /\ volume_ret = Some(0)
    /\ area_ret = Some(0)

\* the greatest coordinate of the mesh on an axis
GreatestOn(tris, a) ==
    CHOOSE m \in {tris[i][j][a] : i \in DOMAIN tris, j \in 1..3} :
        \A i \in DOMAIN tris, j \in 1..3 : m >= tris[i][j][a]

\* the bounding-box dimensions as a tuple, each a count of 1/BBoxDen cm
BoxDimensions(bbox) == <<bbox.width, bbox.depth, bbox.height>>

\* C13: after a successful load of a non-empty mesh each bounding-box
\* dimension is (max - min) / 10 of its axis over all vertices, the origin
\* is the per-axis minimum, and every coordinate c of every triangle of
\* _translated_triangles satisfies 0 <= c <= 10 * (dimension of its axis).
C13_BoundingBox ==
    (Returned /\ triangles # <<>>) =>
        LET dims == BoxDimensions(bounding_box_cm[1])
            tt   == TranslatedTriangles(triangles, bbox_min)
        IN  /\ \A a \in 1..3 :
                   /\ dims[a] * 10 =
                          (GreatestOn(triangles, a) - LeastOn(triangles, a))
                          * BBoxDen
                   /\ bbox_min[a] = LeastOn(triangles, a)
            /\ \A i \in DOMAIN tt, j \in 1..3, a \in 1..3 :
                   /\ 0 <= tt[i][j][a]
                   /\ tt[i][j][a] * BBoxDen <= 10 * dims[a]

\* C13's case: a mesh away from the origin whose extreme coordinates are
\* not those of its first vertex
C13_Witness ==
    /\ Returned
    /\ Len(triangles) > 1
    /\ bbox_min # <<0, 0, 0>>
    /\ bbox_min # triangles[1][1]
    /\ \A a \in 1..3 : BoxDimensions(bounding_box_cm[1])[a] > 0

\* the object holds some, but not all, of the triangles the file declares
HoldsProperPrefix(f) ==
    /\ triangles # <<>>
    /\ Len(triangles) < f.count
    /\ Len(triangles) <= Len(f.recs)
    /\ triangles = SubSeq(f.recs, 1, Len(triangles))

\* C14: a load that ends in a fatal error leaves no partially populated
\* model: the triangle list does not hold a proper prefix of the failed
\* file's data.
C14_NoPartialModelAfterFailure ==
    pc = "exited" => ~HoldsProperPrefix(infile[1])

\* volume_cm3 * density * (infill / 100) in grams, printed with 3 decimals:
\* a count of milligrams.  volume is a count of 1/VolumeDen cm3, density a
\* count of 1/DensityDen g/cm3, infill a percentage.
ExpectedMass(volume, density, infill) ==
    LET m == RatMul(RatMul(Rat(volume, VolumeDen), Rat(density, DensityDen)),
                    Rat(infill, 100))
    IN  Format(m.num, m.den, 3)

\* a record of the results reports both masses, as the claim computes them
BothMasses(entry, density) ==
    /\ {"mass_at_infill", "mass_at_100_infill"} \subseteq DOMAIN entry
    /\ entry.mass_at_infill.infill_percent = args[1].infill
    /\ entry.mass_at_infill.mass_g =
           ExpectedMass(volume_ret[1], density, args[1].infill)
    /\ entry.mass_at_100_infill.mass_g =
           ExpectedMass(volume_ret[1], density, 100)
    /\ entry.mass_at_infill.mass_g <= entry.mass_at_100_infill.mass_g

InfillInRange(a) == 0 <= a.infill /\ a.infill <= 100

\* C15: for every material and every infill in 0..100 the reported mass at
\* infill is volume_cm3 * density * (infill / 100) and the reported mass at
\* 100% is volume_cm3 * density; wherever a mass is reported both are; the
\* mass at infill never exceeds the mass at 100%; an infill outside 0..100
\* is rejected before any file is loaded.
C15_MassEstimates ==
    args # None =>
        /\ ~InfillInRange(args[1]) =>
               /\ pc = "usage_error"
               /\ infile = None
               /\ is_binary_file = None
               /\ results = None
        /\ InfillInRange(args[1]) => pc \in {"reported", "exited"}
        /\ (pc = "reported" /\ args[1].calculation = None) =>
               /\ DOMAIN results[1].mass_estimates = 1..21
               /\ \A id \in 1..21 :
                      /\ results[1].mass_estimates[id].id = id
                      /\ BothMasses(results[1].mass_estimates[id], Materials[id])
        /\ (pc = "reported" /\ args[1].calculation = Some("volume")) =>
               BothMasses(results[1], Materials[args[1].material])

\* C15's case: the cube at 50% infill in gold (15.6 g/cm3), full analysis
C15_Witness ==
    /\ pc = "reported"
    /\ args = Some([calculation |-> None, infill |-> 50, material |-> 19])
    /\ volume_ret = Some(VolumeDen)
    /\ results[1].mass_estimates[19].mass_at_infill.mass_g = 7800
    /\ results[1].mass_estimates[19].mass_at_100_infill.mass_g = 15600

\* what a fresh object holds right after loading the file, and whether
\* that load returns
FreshLoad(f) == LoadSTL(FreshObject, f)

\* C16: after any sequence of successful loads and calculations on one
\* object, the model state is that of a fresh object that has just loaded
\* the most recent file (nothing of an earlier file is kept, and the
\* calculations change nothing), and each calculation returns what it
\* returns on that fresh object, however often and in whatever order it
\* is called.
C16_StateIsThatOfLastLoad ==
    pc = "loaded" =>
        /\ FreshLoad(infile[1]).ok
        /\ Self = FreshLoad(infile[1]).obj
        /\ volume_ret # None =>
               volume_ret[1] = CalculateVolume(FreshLoad(infile[1]).obj).ret
        /\ area_ret # None =>
               area_ret[1] = CalculateSurfaceArea(FreshLoad(infile[1]).obj)

\* C16's case: a watertight mesh loaded after a mesh that was not, both
\* calculations done
C16_Witness ==
    /\ pc = "loaded"
    /\ "not_watertight" \in console
    /\ is_watertight = Some(TRUE)
    /\ triangles # <<>>
    /\ volume_ret # None
    /\ area_ret # None
    /\ volume_ret[1] > 0

\* every close in the log closes a handle opened before it
WellNested(log) ==
    \A k \in 0..Len(log) : StillOpen(SubSeq(log, 1, k)) \in {0, 1}

\* C17: every handle is_binary and loadSTL open is released when the load
\* ends, on the success path and on every failure path; once loadSTL has
\* ended, normally or by a fatal error, no handle to the input file is
\* open.
C17_HandlesReleased ==
    /\ open_handles = 0
    /\ (Ended /\ infile # None) =>
           /\ Cardinality({i \in DOMAIN file_log : file_log[i] = "open"}) = 2
           /\ WellNested(file_log)
           /\ StillOpen(file_log) = 0

\* C17's case: a binary load that failed on a record after reading others
C17_Witness ==
    /\ pc = "exited"
    /\ is_binary_file = Some(TRUE)
    /\ triangles # <<>>
    /\ Len(file_log) = 4
    /\ open_handles = 0

====
